---- MODULE Spec2Model ----
(***************************************************************************)
(* Model of coastseg/extracted_shoreline.py: the class Extracted_Shoreline *)
(* (construction, settings assembly, CRS handling, saving, map layers).    *)
(*                                                                         *)
(* Python objects that can be shared (dicts, lists) live in `heap`, keyed  *)
(* by address, so that aliasing and copying are distinguishable.  Other    *)
(* values (numbers, strings, arrays, geodataframes) are immutable records. *)
(***************************************************************************)
EXTENDS Integers, Sequences, FiniteSets, TLC

VARIABLES
  heap,                  \* address -> cells of the dict/list stored there
  args,                  \* the four constructor arguments
  pc,                    \* position inside / after Extracted_Shoreline.__init__
  err,                   \* the exception construction ended with
  gdf,                   \* self.gdf
  roi_id,                \* self.roi_id
  extracted_shorelines,  \* self.extracted_shorelines
  shoreline_settings,    \* self.shoreline_settings: a heap address, 0 for the fresh {}
  local,                 \* locals of extract_shorelines while the constructor runs
  calls,                 \* external library calls made by the constructor, in order
  files,                 \* the file system: path -> file contents
  last                   \* the last operation called on the object and what it returned

vars == <<heap, args, pc, err, gdf, roi_id, extracted_shorelines, shoreline_settings,
          local, calls, files, last>>

-----------------------------------------------------------------------------
(* Bounds *)

\* longest list of shorelines the detection library returns
MaxShorelines == 2

-----------------------------------------------------------------------------
(* Python values *)

NoArr == <<>>

PyNone == [kind |-> "NoneType", n |-> 0, s |-> "", arr |-> NoArr]
PyInt(i) == [kind |-> "int", n |-> i, s |-> "", arr |-> NoArr]
PyBool(b) == [kind |-> "bool", n |-> IF b THEN 1 ELSE 0, s |-> "", arr |-> NoArr]
PyStr(t) == [kind |-> "str", n |-> 0, s |-> t, arr |-> NoArr]
NdArray(a) == [kind |-> "ndarray", n |-> 0, s |-> "", arr |-> a]
\* a reference to the dict stored at address a
DictRef(a) == [kind |-> "dict", n |-> a, s |-> "", arr |-> NoArr]
\* a reference to the list stored at address a
ListRef(a) == [kind |-> "list", n |-> a, s |-> "", arr |-> NoArr]

IsRef(v) == v.kind \in {"dict", "list"}

\* the empty dict {} / function with no cells
EmptyCells == [k \in {} |-> PyNone]

\* d[k] = v on the cells d
SetItem(d, k, v) == [x \in (DOMAIN d) \cup {k} |-> IF x = k THEN v ELSE d[x]]

\* addresses reachable from value v (the heap of the model is acyclic)
RECURSIVE Reach(_, _)
Reach(h, v) ==
  IF IsRef(v)
    THEN {v.n} \cup UNION {Reach(h, h[v.n][k]) : k \in DOMAIN h[v.n]}
    ELSE {}

\* the value v stands for, references followed: what == compares in Python
RECURSIVE DeepVal(_, _)
DeepVal(h, v) ==
  IF IsRef(v)
    THEN [kind |-> v.kind, n |-> 0, s |-> "", arr |-> NoArr,
          items |-> [k \in DOMAIN h[v.n] |-> DeepVal(h, h[v.n][k])]]
    ELSE [kind |-> v.kind, n |-> v.n, s |-> v.s, arr |-> v.arr, items |-> <<>>]

\* copy.deepcopy(v): every dict/list reachable from v is copied to a fresh address,
\* references inside the copy point to the copies; immutable values are shared
DeepCopy(h, v) ==
  LET R == Reach(h, v)
      top == IF DOMAIN h = {} THEN 0
             ELSE CHOOSE a \in DOMAIN h : \A b \in DOMAIN h : b <= a
      memo == [a \in R |-> top + Cardinality({b \in R : b <= a})]
      fresh == {memo[a] : a \in R}
      orig(f) == CHOOSE a \in R : memo[a] = f
      copyVal(x) == IF IsRef(x) THEN [x EXCEPT !.n = memo[x.n]] ELSE x
      h2 == [a \in (DOMAIN h) \cup fresh |->
               IF a \in DOMAIN h THEN h[a]
               ELSE [k \in DOMAIN h[orig(a)] |-> copyVal(h[orig(a)][k])]]
  IN  [heap |-> h2, val |-> copyVal(v)]

-----------------------------------------------------------------------------
(* Coordinate reference systems and geodataframes *)

\* gdf.crs of a geodataframe that has none
NoCrs == 0
\* map_crs, "EPSG:4326" / 4326
MapCrs == 4326

\* The coordinate of world position w in CRS c, and back.  Each CRS has its own
\* scale and origin, so that reprojecting changes the numbers.
Project(c, w) ==
  CASE c = 4326 -> w
    [] c = 3857 -> 2 * w + 1
    [] c = 32610 -> 3 * w + 5
    [] OTHER -> w
Unproject(c, x) ==
  CASE c = 4326 -> x
    [] c = 3857 -> (x - 1) \div 2
    [] c = 32610 -> (x - 5) \div 3
    [] OTHER -> x

\* a point <<x, y>> expressed in CRS `from`, expressed in CRS `to`
ToCrsPoint(p, from, to) ==
  <<Project(to, Unproject(from, p[1])), Project(to, Unproject(from, p[2]))>>

\* GeoDataFrame.to_crs(to): a new geodataframe, every geometry reprojected
ToCrs(g, to) ==
  [g EXCEPT !.crs = to,
            !.rows = [i \in 1..Len(g.rows) |->
                        [g.rows[i] EXCEPT !.geometry =
                           [j \in 1..Len(g.rows[i].geometry) |->
                              ToCrsPoint(g.rows[i].geometry[j], g.crs, to)]]]]

\* gpd.GeoDataFrame()
EmptyGdf == [crs |-> NoCrs, rows |-> <<>>]

\* concatenation of a sequence of sequences (np.vstack of the lines' points)
RECURSIVE VStack(_)
VStack(ss) == IF ss = <<>> THEN <<>> ELSE Head(ss) \o VStack(Tail(ss))

\* get_reference_shoreline(shoreline_gdf, output_crs): reproject, stack all points
\* into one n x 2 array, add a third column of zeros
get_reference_shoreline(shoreline_gdf, output_crs) ==
  LET reprojected == ToCrs(shoreline_gdf, output_crs)
      stacked == VStack([i \in 1..Len(reprojected.rows) |-> reprojected.rows[i].geometry])
  IN  [i \in 1..Len(stacked) |-> <<stacked[i][1], stacked[i][2], 0>>]

-----------------------------------------------------------------------------
(* The external detection library (coastsat), as the source uses and describes it *)

\* what the detection can find in the imagery: date, satellite, georeferencing
\* accuracy, cloud cover, and the shoreline as world positions
Detections ==
  { [date |-> "2018-12-31 19:03:17", satname |-> "L8", geoaccuracy |-> 5,
     cloud_cover |-> 0, world |-> << <<0, 1>>, <<1, 1>> >>],
    [date |-> "2018-12-31 19:03:17", satname |-> "L8", geoaccuracy |-> 12,
     cloud_cover |-> 1, world |-> << <<1, 2>> >>],
    [date |-> "2019-02-01 19:03:25", satname |-> "L5", geoaccuracy |-> 3,
     cloud_cover |-> 2, world |-> << <<3, 0>>, <<2, 3>> >>] }

\* the output dictionary of the library: one list per column
Output(ds, epsg) ==
  [dates |-> [i \in 1..Len(ds) |-> ds[i].date],
   satname |-> [i \in 1..Len(ds) |-> ds[i].satname],
   geoaccuracy |-> [i \in 1..Len(ds) |-> ds[i].geoaccuracy],
   cloud_cover |-> [i \in 1..Len(ds) |-> ds[i].cloud_cover],
   shorelines |-> [i \in 1..Len(ds) |->
                     [j \in 1..Len(ds[i].world) |->
                        <<Project(epsg, ds[i].world[j][1]), Project(epsg, ds[i].world[j][2])>>]]]

NoOutput == Output(<<>>, MapCrs)

\* the i-th smallest element of the set of numbers S
RECURSIVE Nth(_, _)
Nth(S, i) ==
  LET m == CHOOSE a \in S : \A b \in S : a <= b
  IN  IF i = 1 THEN m ELSE Nth(S \ {m}, i - 1)

\* the output with only the entries at the indices in keep, in order
Keep(output, keep) ==
  LET n == Cardinality(keep)
      col(c) == [i \in 1..n |-> c[Nth(keep, i)]]
  IN  [dates |-> col(output.dates), satname |-> col(output.satname),
       geoaccuracy |-> col(output.geoaccuracy), cloud_cover |-> col(output.cloud_cover),
       shorelines |-> col(output.shorelines)]

\* SDS_download.get_metadata(inputs): the metadata of the images the inputs name
get_metadata(h, inputs) == [of |-> DeepVal(h, inputs)]

\* SDS_tools.remove_duplicates(output): "removes duplicates (images taken on the
\* same date by the same satellite)"
remove_duplicates(output) ==
  Keep(output, {i \in 1..Len(output.dates) :
                  ~ \E j \in 1..(i - 1) : /\ output.dates[j] = output.dates[i]
                                          /\ output.satname[j] = output.satname[i]})

\* SDS_tools.remove_inaccurate_georef(output, accuracy): "remove inaccurate
\* georeferencing (set threshold to 10 m)"
remove_inaccurate_georef(output, accuracy) ==
  Keep(output, {i \in 1..Len(output.dates) : output.geoaccuracy[i] < accuracy})

\* SDS_tools.output_to_gdf(output, "lines"): one row per shoreline, no CRS set
output_to_gdf(output) ==
  [crs |-> NoCrs,
   rows |-> [i \in 1..Len(output.shorelines) |->
               [date |-> output.dates[i], satname |-> output.satname[i],
                geoaccuracy |-> output.geoaccuracy[i],
                cloud_cover |-> output.cloud_cover[i],
                geometry |-> output.shorelines[i]]]]

-----------------------------------------------------------------------------
(* The caller's arguments *)

\* where the caller's objects live
Addr == [settings |-> 1, sat_list |-> 2, roi_settings |-> 3]

\* roi_id: None, a number, the empty string, an id
RoiIdArgs == {PyNone, PyInt(21), PyStr(""), PyStr("21")}

\* shoreline: None, a dict, an empty geodataframe, a geodataframe of two lines
ShorelineArgs ==
  { [type |-> "NoneType", crs |-> NoCrs, rows |-> <<>>],
    [type |-> "dict", crs |-> NoCrs, rows |-> <<>>],
    [type |-> "GeoDataFrame", crs |-> MapCrs, rows |-> <<>>],
    [type |-> "GeoDataFrame", crs |-> MapCrs,
     rows |-> << [geometry |-> << <<0, 0>>, <<1, 2>> >>], [geometry |-> << <<2, 3>> >>] >>] }

\* roi_settings: None, a list, {}, the settings of an ROI
RoiSettingsKinds == {"none", "list", "empty", "roi"}
RoiSettingsArg(rk) ==
  CASE rk = "none" -> PyNone
    [] rk = "list" -> ListRef(Addr.roi_settings)
    [] OTHER -> DictRef(Addr.roi_settings)
RoiCells ==
  [k \in {"sitename", "landsat_collection"} |->
     IF k = "sitename" THEN PyStr("ID21_datetime") ELSE PyStr("C01")]

\* settings: None, a string, {}, and four dictionaries of settings:
\*   plain      output_epsg, cloud_thresh and the nested list sat_list
\*   overrides  also carries adjust_detection = True and check_detection = True
\*   aliased    also carries inputs, the caller's roi_settings dictionary itself
\*   no_epsg    lacks output_epsg
SettingsKinds == {"none", "str", "empty", "plain", "overrides", "aliased", "no_epsg"}
SettingsArg(sk) ==
  CASE sk = "none" -> PyNone
    [] sk = "str" -> PyStr("settings")
    [] OTHER -> DictRef(Addr.settings)
SettingsCells(sk) ==
  LET base == [k \in {"cloud_thresh", "sat_list"} |->
                 IF k = "cloud_thresh" THEN PyInt(50) ELSE ListRef(Addr.sat_list)]
  IN  CASE sk = "plain" -> SetItem(base, "output_epsg", PyInt(32610))
        [] sk = "overrides" ->
             SetItem(SetItem(SetItem(base, "output_epsg", PyInt(3857)),
                             "adjust_detection", PyBool(TRUE)),
                     "check_detection", PyBool(TRUE))
        [] sk = "aliased" ->
             SetItem(SetItem(base, "output_epsg", PyInt(MapCrs)),
                     "inputs", DictRef(Addr.roi_settings))
        [] sk = "no_epsg" -> base
        [] OTHER -> EmptyCells
SatListCells == [k \in {"0", "1"} |-> IF k = "0" THEN PyStr("L8") ELSE PyStr("L5")]

\* the caller's heap for a choice of settings and roi_settings
CallerHeap(sk, rk) ==
  LET hs == IF sk \in {"none", "str"} THEN <<>>
            ELSE Addr.settings :> SettingsCells(sk)
      hl == IF sk \in {"plain", "overrides", "aliased", "no_epsg"}
              THEN Addr.sat_list :> SatListCells ELSE <<>>
      hr == IF rk = "roi" \/ (sk = "aliased" /\ rk = "none")
              THEN Addr.roi_settings :> RoiCells
            ELSE IF rk = "none" THEN <<>>
            ELSE Addr.roi_settings :> EmptyCells
  IN  hs @@ hl @@ hr

-----------------------------------------------------------------------------
(* State *)

NoErr == [type |-> "", msg |-> ""]
NoLocal == [reference_shoreline |-> NoArr, metadata |-> [of |-> DeepVal(<<>>, PyNone)],
            extracted_shorelines |-> NoOutput]
NoFile == [type |-> "", crs |-> NoCrs, features |-> <<>>]
\* the record of a call: its name, its string and CRS arguments, what it returned
\* and raised, and the file accesses it made
Idle(op) == [op |-> op, argv |-> <<>>, crs |-> <<>>, layers |-> <<>>, gdf |-> EmptyGdf,
             raised |-> "", io |-> <<>>]

FILE_NAME == "extracted_shorelines.geojson"
Filepaths == {"/data"}
Sitenames == {"ID21_datetime", "ID22_datetime"}
Paths == {<<f, n, FILE_NAME>> : f \in Filepaths, n \in Sitenames}
         \cup {<<f, FILE_NAME>> : f \in Filepaths}

Init ==
  /\ \E r \in RoiIdArgs, sh \in ShorelineArgs, rk \in RoiSettingsKinds, sk \in SettingsKinds :
       /\ args = [roi_id |-> r, shoreline |-> sh,
                  roi_settings |-> RoiSettingsArg(rk), settings |-> SettingsArg(sk)]
       /\ heap = CallerHeap(sk, rk)
  /\ pc = "start"
  /\ err = NoErr
  /\ gdf = EmptyGdf
  /\ roi_id = PyNone
  /\ extracted_shorelines = EmptyCells
  /\ shoreline_settings = 0
  /\ local = NoLocal
  /\ calls = <<>>
  /\ files = [p \in Paths |-> NoFile]
  /\ last = Idle("")

-----------------------------------------------------------------------------
(* Extracted_Shoreline.__init__ *)

Raise(type, msg) ==
  /\ pc' = "failed"
  /\ err' = [type |-> type, msg |-> msg]

\* faulty variant: the check of an empty settings dictionary is missing
ValidationError_NoEmptySettings(a, h) ==
  IF a.roi_id.kind # "str" THEN "ROI id must be string."
  ELSE IF a.shoreline.type # "GeoDataFrame" THEN "shoreline must be valid geodataframe."
  ELSE IF Len(a.shoreline.rows) = 0 THEN "shoreline cannot be empty."
  ELSE IF a.roi_settings.kind # "dict" THEN "roi_settings must be dict."
  ELSE IF DOMAIN h[a.roi_settings.n] = {} THEN "roi_settings cannot be empty."
  ELSE IF a.settings.kind # "dict" THEN "settings must be dict."
  ELSE ""

\* lines 42-60: the first failing check, "" when every check passes
ValidationError(a, h) ==
  IF a.roi_id.kind # "str" THEN "ROI id must be string."
  ELSE IF a.shoreline.type # "GeoDataFrame" THEN "shoreline must be valid geodataframe."
  ELSE IF Len(a.shoreline.rows) = 0 THEN "shoreline cannot be empty."
  ELSE IF a.roi_settings.kind # "dict" THEN "roi_settings must be dict."
  ELSE IF DOMAIN h[a.roi_settings.n] = {} THEN "roi_settings cannot be empty."
  ELSE IF a.settings.kind # "dict" THEN "settings must be dict."
  ELSE IF DOMAIN h[a.settings.n] = {} THEN "settings cannot be empty."
  ELSE ""

\* lines 42-71: validation, then the fields are initialised
Validate ==
  /\ pc = "start"
  /\ IF ValidationError(args, heap) # ""
       THEN /\ Raise("ValueError", ValidationError(args, heap))
            /\ UNCHANGED <<gdf, roi_id, extracted_shorelines, shoreline_settings>>
       ELSE /\ gdf' = EmptyGdf
            /\ roi_id' = args.roi_id
            /\ extracted_shorelines' = EmptyCells
            /\ shoreline_settings' = 0
            /\ pc' = "get_reference_shoreline"
            /\ err' = NoErr
  /\ last' = Idle("__init__")
  /\ UNCHANGED <<heap, args, local, calls, files>>

\* the threshold the constructor passes to remove_inaccurate_georef
GeorefThreshold == 10

\* the external call the constructor makes at pc, with its arguments
NextCall ==
  CASE pc = "get_reference_shoreline" ->
         [fn |-> "to_crs",
          arg |-> <<args.shoreline, heap[args.settings.n]["output_epsg"].n>>]
    [] pc = "get_metadata" ->
         [fn |-> "get_metadata", arg |-> heap[shoreline_settings]["inputs"]]
    [] pc = "extract_shorelines" ->
         [fn |-> "extract_shorelines", arg |-> <<local.metadata, shoreline_settings>>]
    [] pc = "remove_duplicates" ->
         [fn |-> "remove_duplicates", arg |-> local.extracted_shorelines]
    [] pc = "remove_inaccurate_georef" ->
         [fn |-> "remove_inaccurate_georef",
          arg |-> <<local.extracted_shorelines, GeorefThreshold>>]
    [] pc = "create_geodataframe" ->
         [fn |-> "output_to_gdf", arg |-> <<extracted_shorelines, "lines">>]

Returned(call, res) == [fn |-> call.fn, arg |-> call.arg, res |-> res, ok |-> TRUE]
Threw(call) == [fn |-> call.fn, arg |-> call.arg, res |-> <<>>, ok |-> FALSE]

\* faulty variant: roi_id is validated only after the shoreline has been reprojected
GetReferenceShoreline_LateCheck ==
  /\ pc = "get_reference_shoreline"
  /\ "output_epsg" \in DOMAIN heap[args.settings.n]
  /\ LET ref == get_reference_shoreline(args.shoreline,
                                        heap[args.settings.n]["output_epsg"].n)
     IN  /\ local' = [local EXCEPT !.reference_shoreline = ref]
         /\ calls' = Append(calls, Returned(NextCall, ref))
         /\ IF args.roi_id.s = ""
              THEN Raise("ValueError", "ROI id cannot be empty.")
              ELSE pc' = "create_shoreline_settings" /\ err' = NoErr
  /\ last' = Idle("__init__")
  /\ UNCHANGED <<heap, args, gdf, roi_id, extracted_shorelines, shoreline_settings, files>>

\* lines 93-96: settings["output_epsg"], then get_reference_shoreline
GetReferenceShoreline ==
  /\ pc = "get_reference_shoreline"
  /\ IF "output_epsg" \notin DOMAIN heap[args.settings.n]
       THEN /\ Raise("KeyError", "output_epsg")
            /\ UNCHANGED <<local, calls>>
       ELSE LET ref == get_reference_shoreline(args.shoreline,
                                               heap[args.settings.n]["output_epsg"].n)
            IN  /\ local' = [local EXCEPT !.reference_shoreline = ref]
                /\ calls' = Append(calls, Returned(NextCall, ref))
                /\ pc' = "create_shoreline_settings"
                /\ err' = NoErr
  /\ last' = Idle("__init__")
  /\ UNCHANGED <<heap, args, gdf, roi_id, extracted_shorelines, shoreline_settings, files>>

\* faulty variant: copy.copy instead of copy.deepcopy: nested values stay shared
create_shoreline_settings_shallow(h, settings, roi_settings, ref) ==
  LET a == 1 + (CHOOSE x \in DOMAIN h : \A y \in DOMAIN h : y <= x)
      d1 == SetItem(h[settings.n], "reference_shoreline", NdArray(ref))
      d2 == SetItem(d1, "adjust_detection", PyBool(FALSE))
      d3 == SetItem(d2, "check_detection", PyBool(FALSE))
      d4 == SetItem(d3, "inputs", roi_settings)
  IN  [heap |-> (a :> d4) @@ h, addr |-> a]

\* faulty variant: the detection flags are only defaulted, a value in settings wins
create_shoreline_settings_setdefault(h, settings, roi_settings, ref) ==
  LET c == DeepCopy(h, settings)
      a == c.val.n
      d1 == SetItem(c.heap[a], "reference_shoreline", NdArray(ref))
      d2 == IF "adjust_detection" \in DOMAIN d1 THEN d1
            ELSE SetItem(d1, "adjust_detection", PyBool(FALSE))
      d3 == IF "check_detection" \in DOMAIN d2 THEN d2
            ELSE SetItem(d2, "check_detection", PyBool(FALSE))
      d4 == SetItem(d3, "inputs", roi_settings)
  IN  [heap |-> [c.heap EXCEPT ![a] = d4], addr |-> a]

\* lines 144-155: the heap after create_shoreline_settings and the address of the
\* dictionary it stores in self.shoreline_settings
create_shoreline_settings(h, settings, roi_settings, ref) ==
  LET c == DeepCopy(h, settings)
      a == c.val.n
      d1 == SetItem(c.heap[a], "reference_shoreline", NdArray(ref))
      d2 == SetItem(d1, "adjust_detection", PyBool(FALSE))
      d3 == SetItem(d2, "check_detection", PyBool(FALSE))
      d4 == SetItem(d3, "inputs", roi_settings)
  IN  [heap |-> [c.heap EXCEPT ![a] = d4], addr |-> a]

\* line 98
CreateShorelineSettings ==
  /\ pc = "create_shoreline_settings"
  /\ LET r == create_shoreline_settings(heap, args.settings, args.roi_settings,
                                        local.reference_shoreline)
     IN  /\ heap' = r.heap
         /\ shoreline_settings' = r.addr
  /\ pc' = "get_metadata"
  /\ last' = Idle("create_shoreline_settings")
  /\ UNCHANGED <<args, err, gdf, roi_id, extracted_shorelines, local, calls, files>>

\* line 101
GetMetadata ==
  /\ pc = "get_metadata"
  /\ LET metadata == get_metadata(heap, heap[shoreline_settings]["inputs"])
     IN  /\ local' = [local EXCEPT !.metadata = metadata]
         /\ calls' = Append(calls, Returned(NextCall, metadata))
  /\ pc' = "extract_shorelines"
  /\ last' = Idle("__init__")
  /\ UNCHANGED <<heap, args, err, gdf, roi_id, extracted_shorelines, shoreline_settings, files>>

\* lines 104-106: the library detects any list of up to MaxShorelines shorelines,
\* in the output CRS of the settings it is given
SDSExtractShorelines ==
  /\ pc = "extract_shorelines"
  /\ \E n \in 0..MaxShorelines :
       \E ds \in [1..n -> Detections] :
         LET out == Output(ds, heap[shoreline_settings]["output_epsg"].n)
         IN  /\ local' = [local EXCEPT !.extracted_shorelines = out]
             /\ calls' = Append(calls, Returned(NextCall, out))
  /\ pc' = "remove_duplicates"
  /\ last' = Idle("__init__")
  /\ UNCHANGED <<heap, args, err, gdf, roi_id, extracted_shorelines, shoreline_settings, files>>

\* lines 109-111
RemoveDuplicates ==
  /\ pc = "remove_duplicates"
  /\ LET out == remove_duplicates(local.extracted_shorelines)
     IN  /\ local' = [local EXCEPT !.extracted_shorelines = out]
         /\ calls' = Append(calls, Returned(NextCall, out))
  /\ pc' = "remove_inaccurate_georef"
  /\ last' = Idle("__init__")
  /\ UNCHANGED <<heap, args, err, gdf, roi_id, extracted_shorelines, shoreline_settings, files>>

\* faulty variant: the result of the last filter is dropped, the unfiltered value returned
RemoveInaccurateGeoref_Dropped ==
  /\ pc = "remove_inaccurate_georef"
  /\ LET out == remove_inaccurate_georef(local.extracted_shorelines, GeorefThreshold)
     IN  /\ extracted_shorelines' = local.extracted_shorelines
         /\ calls' = Append(calls, Returned(NextCall, out))
  /\ local' = NoLocal
  /\ pc' = "check_empty"
  /\ last' = Idle("__init__")
  /\ UNCHANGED <<heap, args, err, gdf, roi_id, shoreline_settings, files>>

\* lines 112-118 and 72-76: the last filter, the return, the assignment to
\* self.extracted_shorelines
RemoveInaccurateGeoref ==
  /\ pc = "remove_inaccurate_georef"
  /\ LET out == remove_inaccurate_georef(local.extracted_shorelines, GeorefThreshold)
     IN  /\ extracted_shorelines' = out
         /\ calls' = Append(calls, Returned(NextCall, out))
  /\ local' = NoLocal
  /\ pc' = "check_empty"
  /\ last' = Idle("__init__")
  /\ UNCHANGED <<heap, args, err, gdf, roi_id, shoreline_settings, files>>

\* common.is_list_empty(main_list)
is_list_empty(main_list) == Len(main_list) = 0

\* faulty variant: the check for an empty result is missing
CheckEmpty_Missing ==
  /\ pc = "check_empty"
  /\ pc' = "create_geodataframe"
  /\ err' = NoErr
  /\ last' = Idle("__init__")
  /\ UNCHANGED <<heap, args, gdf, roi_id, extracted_shorelines, shoreline_settings,
                 local, calls, files>>

\* lines 77-78
CheckEmpty ==
  /\ pc = "check_empty"
  /\ IF is_list_empty(extracted_shorelines.shorelines)
       THEN Raise("No_Extracted_Shoreline", roi_id.s)
       ELSE /\ pc' = "create_geodataframe"
            /\ err' = NoErr
  /\ last' = Idle("__init__")
  /\ UNCHANGED <<heap, args, gdf, roi_id, extracted_shorelines, shoreline_settings,
                 local, calls, files>>

\* faulty variant: the output CRS is assigned to .crs instead of reprojecting to it
create_geodataframe_retagged(es, input_crs, output_crs) ==
  LET tagged == [output_to_gdf(es) EXCEPT !.crs = input_crs]
  IN  IF output_crs # NoCrs THEN [tagged EXCEPT !.crs = output_crs] ELSE tagged

\* lines 170-176; output_crs = NoCrs stands for output_crs = None
create_geodataframe(es, input_crs, output_crs) ==
  LET tagged == [output_to_gdf(es) EXCEPT !.crs = input_crs]
  IN  IF output_crs # NoCrs THEN ToCrs(tagged, output_crs) ELSE tagged

\* lines 79-83
CreateGeodataframe ==
  /\ pc = "create_geodataframe"
  /\ gdf' = create_geodataframe(extracted_shorelines,
                                heap[shoreline_settings]["output_epsg"].n, MapCrs)
  /\ calls' = Append(calls, Returned(NextCall, output_to_gdf(extracted_shorelines)))
  /\ pc' = "constructed"
  /\ last' = Idle("__init__")
  /\ UNCHANGED <<heap, args, err, roi_id, extracted_shorelines, shoreline_settings,
                 local, files>>

\* a call into the external libraries raises instead of returning
ExternalRaises ==
  /\ pc \in {"get_reference_shoreline", "get_metadata", "extract_shorelines",
             "remove_duplicates", "remove_inaccurate_georef", "create_geodataframe"}
  /\ pc = "get_reference_shoreline" => "output_epsg" \in DOMAIN heap[args.settings.n]
  /\ calls' = Append(calls, Threw(NextCall))
  /\ Raise("ExternalError", NextCall.fn)
  /\ local' = NoLocal
  /\ last' = Idle("__init__")
  /\ UNCHANGED <<heap, args, gdf, roi_id, extracted_shorelines, shoreline_settings, files>>

-----------------------------------------------------------------------------
(* Operations on a constructed Extracted_Shoreline *)

\* os.path.join(filepath, sitename, FILE_NAME), as the sequence of its components
SavePath(sitename, filepath) == <<filepath, sitename, FILE_NAME>>

\* the features of a geodataframe as GeoJSON: one Feature per row, in row order
Features(g) ==
  [i \in 1..Len(g.rows) |->
     [id |-> i - 1, type |-> "Feature",
      properties |-> [date |-> g.rows[i].date, satname |-> g.rows[i].satname,
                      geoaccuracy |-> g.rows[i].geoaccuracy,
                      cloud_cover |-> g.rows[i].cloud_cover],
      geometry |-> [type |-> "LineString", coordinates |-> g.rows[i].geometry]]]

\* GeoDataFrame.to_file(savepath, driver="GeoJSON"): the contents of the file
to_file(g) == [type |-> "FeatureCollection", crs |-> g.crs, features |-> Features(g)]

\* faulty variant: the sitename directory is left out of the path
save_to_file_no_sitename(fs, g, sitename, filepath) ==
  [fs EXCEPT ![<<filepath, FILE_NAME>>] = to_file(g)]

\* lines 190-199
save_to_file(fs, g, sitename, filepath) ==
  [fs EXCEPT ![SavePath(sitename, filepath)] = to_file(g)]

SaveToFile ==
  /\ pc = "constructed"
  /\ \E sitename \in Sitenames, filepath \in Filepaths :
       /\ files' = save_to_file(files, gdf, sitename, filepath)
       /\ last' = [Idle("save_to_file") EXCEPT
                     !.argv = <<sitename, filepath>>,
                     !.io = <<[mode |-> "write", path |-> SavePath(sitename, filepath)]>>]
  /\ UNCHANGED <<heap, args, pc, err, gdf, roi_id, extracted_shorelines,
                 shoreline_settings, local, calls>>

\* lines 214-224
style_layer(geojson, layer_name, color) ==
  [data |-> geojson, name |-> layer_name,
   style |-> [color |-> color, opacity |-> 1, weight |-> 4],
   hover_style |-> [color |-> "red", dashArray |-> "4", fillOpacity |-> 7]]

\* lines 230-234: "ID" + roi_id + "_" + date_str for every date of gdf
get_layer_names(g, id) ==
  [i \in 1..Len(g.rows) |-> <<"ID", id.s, "_", g.rows[i].date>>]

\* common.get_colors(length): a list of `length` colours of one colour map
get_colors(length) == [i \in 1..length |-> [colour |-> i, of |-> length]]

\* faulty variant: every layer is named after the first row
get_styled_layers_first_name(g, id) ==
  LET features == Features(ToCrs(g, MapCrs))
      layer_colors == get_colors(Len(features))
      layer_names == get_layer_names(g, id)
  IN  [idx \in 1..Len(features) |->
         style_layer(features[idx], layer_names[1], layer_colors[idx])]

\* lines 238-249
get_styled_layers(g, id) ==
  LET features == Features(ToCrs(g, MapCrs))
      layer_colors == get_colors(Len(features))
      layer_names == get_layer_names(g, id)
  IN  [idx \in 1..Len(features) |->
         style_layer(features[idx], layer_names[idx], layer_colors[idx])]

\* line 214: the assertion of style_layer fails on an empty geojson
AssertionFails(g) ==
  \E i \in 1..Len(g.rows) : DOMAIN Features(ToCrs(g, MapCrs))[i] = {}

GetStyledLayers ==
  /\ pc = "constructed"
  /\ last' = IF AssertionFails(gdf)
               THEN [Idle("get_styled_layers") EXCEPT !.raised = "AssertionError"]
               ELSE [Idle("get_styled_layers") EXCEPT
                       !.layers = get_styled_layers(gdf, roi_id)]
  /\ UNCHANGED <<heap, args, pc, err, gdf, roi_id, extracted_shorelines,
                 shoreline_settings, local, calls, files>>

\* create_geodataframe called on the constructed object, with or without output_crs
CallCreateGeodataframe ==
  /\ pc = "constructed"
  /\ \E input_crs \in {MapCrs, 32610}, output_crs \in {NoCrs, MapCrs} :
       last' = [Idle("create_geodataframe") EXCEPT
                  !.crs = <<input_crs, output_crs>>,
                  !.gdf = create_geodataframe(extracted_shorelines, input_crs, output_crs)]
  /\ UNCHANGED <<heap, args, pc, err, gdf, roi_id, extracted_shorelines,
                 shoreline_settings, local, calls, files>>

-----------------------------------------------------------------------------
(* The caller's later modifications of the dictionaries involved *)

\* self.shoreline_settings["cloud_thresh"] = 99
ModifyShorelineSettings ==
  /\ pc = "constructed"
  /\ heap' = [heap EXCEPT ![shoreline_settings] = SetItem(@, "cloud_thresh", PyInt(99))]
  /\ last' = Idle("modify shoreline_settings")
  /\ UNCHANGED <<args, pc, err, gdf, roi_id, extracted_shorelines,
                 shoreline_settings, local, calls, files>>

\* self.shoreline_settings["sat_list"][0] = "S2"
ModifyNestedSetting ==
  /\ pc = "constructed"
  /\ "sat_list" \in DOMAIN heap[shoreline_settings]
  /\ heap' = [heap EXCEPT ![heap[shoreline_settings]["sat_list"].n] =
                SetItem(@, "0", PyStr("S2"))]
  /\ last' = Idle("modify shoreline_settings nested")
  /\ UNCHANGED <<args, pc, err, gdf, roi_id, extracted_shorelines,
                 shoreline_settings, local, calls, files>>

\* self.shoreline_settings["inputs"]["sitename"] = "changed"
ModifyInputs ==
  /\ pc = "constructed"
  /\ heap' = [heap EXCEPT ![heap[shoreline_settings]["inputs"].n] =
                SetItem(@, "sitename", PyStr("changed"))]
  /\ last' = Idle("modify inputs")
  /\ UNCHANGED <<args, pc, err, gdf, roi_id, extracted_shorelines,
                 shoreline_settings, local, calls, files>>

\* roi_settings["landsat_collection"] = "C02", by the caller
ModifyRoiSettings ==
  /\ pc = "constructed"
  /\ heap' = [heap EXCEPT ![args.roi_settings.n] =
                SetItem(@, "landsat_collection", PyStr("C02"))]
  /\ last' = Idle("modify roi_settings")
  /\ UNCHANGED <<args, pc, err, gdf, roi_id, extracted_shorelines,
                 shoreline_settings, local, calls, files>>

Next ==
  \/ Validate
  \/ GetReferenceShoreline
  \/ CreateShorelineSettings
  \/ GetMetadata
  \/ SDSExtractShorelines
  \/ RemoveDuplicates
  \/ RemoveInaccurateGeoref
  \/ CheckEmpty
  \/ CreateGeodataframe
  \/ ExternalRaises
  \/ SaveToFile
  \/ GetStyledLayers
  \/ CallCreateGeodataframe
  \/ ModifyShorelineSettings
  \/ ModifyNestedSetting
  \/ ModifyInputs
  \/ ModifyRoiSettings

Spec == Init /\ [][Next]_vars

-----------------------------------------------------------------------------
(* Claims *)

\* what the caller passed, read off the arguments
RoiIdIsStr == args.roi_id.kind = "str"
RoiIdNonEmpty == RoiIdIsStr /\ args.roi_id.s # ""
ShorelineNonEmpty == args.shoreline.type = "GeoDataFrame" /\ args.shoreline.rows # <<>>
RoiSettingsNonEmpty ==
  args.roi_settings.kind = "dict" /\ DOMAIN heap[args.roi_settings.n] # {}
SettingsNonEmpty == args.settings.kind = "dict" /\ DOMAIN heap[args.settings.n] # {}
FailedWith(type) == pc = "failed" /\ err.type = type

\* C1 as stated: construction fails with ValueError exactly when one of roi_id,
\* shoreline, roi_settings, settings is null, of the wrong type or empty.
C1_AllFourNonEmpty ==
  pc # "start" =>
    (FailedWith("ValueError") <=>
       ~(RoiIdNonEmpty /\ ShorelineNonEmpty /\ RoiSettingsNonEmpty /\ SettingsNonEmpty))

\* C1 amended: construction fails with ValueError exactly when roi_id is not a
\* string (the empty string is accepted) or one of shoreline, roi_settings,
\* settings is null, of the wrong type or empty; it gets past validation only
\* otherwise.
C1_Validation ==
  pc # "start" =>
    (FailedWith("ValueError") <=>
       ~(RoiIdIsStr /\ ShorelineNonEmpty /\ RoiSettingsNonEmpty /\ SettingsNonEmpty))

\* an empty settings dictionary alone made construction fail with ValueError
C1_Witness ==
  /\ FailedWith("ValueError")
  /\ RoiIdIsStr /\ ShorelineNonEmpty /\ RoiSettingsNonEmpty
  /\ args.settings.kind = "dict" /\ DOMAIN heap[args.settings.n] = {}

PatchedKeys == {"reference_shoreline", "adjust_detection", "check_detection", "inputs"}

\* C2: create_shoreline_settings, and every later modification of
\* self.shoreline_settings or of a value nested in it that came from settings, leaves
\* the caller's settings dictionary and its nested values as they were, and adds none
\* of the four patched keys to it.
C2_SettingsUntouched ==
  [][last'.op \in {"create_shoreline_settings", "modify shoreline_settings",
                   "modify shoreline_settings nested"}
       => /\ DeepVal(heap', args.settings) = DeepVal(heap, args.settings)
          /\ (DOMAIN heap'[args.settings.n]) \cap PatchedKeys
               \subseteq DOMAIN heap[args.settings.n]]_vars

\* the copy's nested list was modified and now differs from the caller's
C2_Witness ==
  /\ last.op = "modify shoreline_settings nested"
  /\ heap[heap[shoreline_settings]["sat_list"].n]["0"] = PyStr("S2")
  /\ heap[heap[args.settings.n]["sat_list"].n]["0"] = PyStr("L8")
  /\ heap[shoreline_settings]["cloud_thresh"] = PyInt(99)
  /\ heap[args.settings.n]["cloud_thresh"] = PyInt(50)

\* C3: right after create_shoreline_settings, self.shoreline_settings has the keys of
\* settings plus the four patched keys; reference_shoreline and inputs are the values
\* given, adjust_detection and check_detection are False whatever settings held, and
\* every other key holds the value it has in settings.
C3_ShorelineSettings ==
  last.op = "create_shoreline_settings" =>
    LET ss == heap[shoreline_settings]
        st == heap[args.settings.n]
    IN  /\ DOMAIN ss = (DOMAIN st) \cup PatchedKeys
        /\ ss["reference_shoreline"] = NdArray(local.reference_shoreline)
        /\ DeepVal(heap, ss["inputs"]) = DeepVal(heap, args.roi_settings)
        /\ ss["adjust_detection"] = PyBool(FALSE)
        /\ ss["check_detection"] = PyBool(FALSE)
        /\ \A k \in (DOMAIN st) \ PatchedKeys :
             DeepVal(heap, ss[k]) = DeepVal(heap, st[k])

\* settings carried adjust_detection = True and inputs was patched over it
C3_Witness ==
  /\ last.op = "create_shoreline_settings"
  /\ "adjust_detection" \in DOMAIN heap[args.settings.n]
  /\ heap[args.settings.n]["adjust_detection"] = PyBool(TRUE)
  /\ heap[shoreline_settings]["adjust_detection"] = PyBool(FALSE)

CallOrder == <<"to_crs", "get_metadata", "extract_shorelines", "remove_duplicates",
               "remove_inaccurate_georef", "output_to_gdf">>

\* C4: the constructor's external calls are a prefix of the fixed order, only the
\* last one may have raised, shoreline_settings is assembled between the
\* reprojection and get_metadata, each call is given the previous one's output
\* (threshold 10 for remove_inaccurate_georef), and self.extracted_shorelines is
\* only ever the output of remove_inaccurate_georef.
C4_CallOrder ==
  LET n == Len(calls)
  IN  /\ n <= Len(CallOrder)
      /\ \A i \in 1..n : calls[i].fn = CallOrder[i]
      /\ \A i \in 1..(n - 1) : calls[i].ok
      /\ shoreline_settings # 0 => n >= 1
      /\ n >= 2 => /\ shoreline_settings # 0
                   /\ calls[2].arg = heap[shoreline_settings]["inputs"]
      /\ n >= 3 => calls[3].arg = <<calls[2].res, shoreline_settings>>
      /\ n >= 4 => calls[4].arg = calls[3].res
      /\ n >= 5 => calls[5].arg = <<calls[4].res, 10>>
      /\ n >= 6 => calls[6].arg = <<calls[5].res, "lines">>
      /\ DOMAIN extracted_shorelines # {} =>
           /\ n >= 5
           /\ calls[5].ok
           /\ extracted_shorelines = calls[5].res
      /\ pc = "constructed" => n = 6 /\ calls[6].ok

\* a construction went through and the georeferencing filter removed a shoreline
C4_Witness ==
  /\ pc = "constructed"
  /\ Len(calls[4].res.shorelines) = Len(calls[3].res.shorelines)
  /\ Len(calls[5].res.shorelines) < Len(calls[4].res.shorelines)
  /\ extracted_shorelines = calls[5].res

\* C5: a constructed object's gdf is in EPSG:4326: its geometries are those of
\* self.extracted_shorelines, read in the CRS the reference shoreline was
\* reprojected to and reprojected to EPSG:4326; create_geodataframe with
\* output_crs = None returns the geometries as they are, tagged input_crs.
C5_MapCrs ==
  /\ pc = "constructed" =>
       LET epsg == calls[1].arg[2]
           sl == extracted_shorelines.shorelines
       IN  /\ gdf.crs = MapCrs
           /\ Len(gdf.rows) = Len(sl)
           /\ \A i \in 1..Len(sl) :
                /\ Len(gdf.rows[i].geometry) = Len(sl[i])
                /\ \A j \in 1..Len(sl[i]) :
                     gdf.rows[i].geometry[j] = ToCrsPoint(sl[i][j], epsg, MapCrs)
  /\ (last.op = "create_geodataframe" /\ last.crs[2] = NoCrs) =>
       /\ last.gdf.crs = last.crs[1]
       /\ Len(last.gdf.rows) = Len(extracted_shorelines.shorelines)
       /\ \A i \in 1..Len(last.gdf.rows) :
            last.gdf.rows[i].geometry = extracted_shorelines.shorelines[i]

\* an object built with another output CRS; create_geodataframe called without output_crs
C5_Witness ==
  /\ pc = "constructed"
  /\ calls[1].arg[2] = 32610
  /\ gdf.rows[1].geometry # extracted_shorelines.shorelines[1]
  /\ last.op = "create_geodataframe" /\ last.crs = <<32610, NoCrs>>

\* in the file system fs, the file at path p holds the feature collection g as GeoJSON
HoldsGeoJSON(fs, p, g) ==
  /\ fs[p].type = "FeatureCollection"
  /\ fs[p].crs = g.crs
  /\ Len(fs[p].features) = Len(g.rows)
  /\ \A i \in 1..Len(g.rows) :
       /\ fs[p].features[i].geometry.coordinates = g.rows[i].geometry
       /\ fs[p].features[i].properties.date = g.rows[i].date
       /\ fs[p].features[i].properties.satname = g.rows[i].satname
       /\ fs[p].features[i].properties.geoaccuracy = g.rows[i].geoaccuracy
       /\ fs[p].features[i].properties.cloud_cover = g.rows[i].cloud_cover

\* some operation of the component reads the file at p and returns what it holds
ReadBack(p) ==
  /\ Next
  /\ last'.io = <<[mode |-> "read", path |-> p]>>
  /\ to_file(last'.gdf) = files[p]

\* C6 as stated: whenever save_to_file has written a file, an operation of the
\* component can read the feature collection back from it.
C6_ReadBack ==
  \A p \in Paths : files[p] # NoFile => ENABLED ReadBack(p)

\* C6 amended: the component only serializes.  save_to_file(sitename, filepath)
\* writes gdf as GeoJSON to <filepath>/<sitename>/extracted_shorelines.geojson,
\* touches no other file and leaves gdf, roi_id, extracted_shorelines and
\* shoreline_settings unchanged; no operation reads a file, and only save_to_file
\* writes one.
C6_SaveOnly ==
  [][/\ last'.op = "save_to_file" =>
          LET p == <<last'.argv[2], last'.argv[1], "extracted_shorelines.geojson">>
          IN  /\ HoldsGeoJSON(files', p, gdf)
              /\ \A q \in Paths \ {p} : files'[q] = files[q]
              /\ UNCHANGED <<gdf, roi_id, extracted_shorelines, shoreline_settings, heap>>
     /\ last'.op # "save_to_file" => files' = files
     /\ \A i \in 1..Len(last'.io) : last'.io[i].mode = "write"]_vars

\* a feature collection of two features was saved for the second site
C6_Witness ==
  /\ last.op = "save_to_file"
  /\ last.argv = <<"ID22_datetime", "/data">>
  /\ Len(files[<<"/data", "ID22_datetime", FILE_NAME>>].features) = 2

\* C7 as stated: shoreline_settings["inputs"] is a copy of roi_settings: the
\* caller modifying roi_settings does not change shoreline_settings["inputs"], and
\* modifying shoreline_settings["inputs"] does not change the caller's roi_settings.
C7_InputsIsCopy ==
  [][/\ last'.op = "modify roi_settings" =>
          DeepVal(heap', heap'[shoreline_settings]["inputs"])
            = DeepVal(heap, heap[shoreline_settings]["inputs"])
     /\ last'.op = "modify inputs" =>
          DeepVal(heap', args.roi_settings) = DeepVal(heap, args.roi_settings)]_vars

\* C8: an empty extracted_shorelines["shorelines"] after the two filters makes
\* construction fail with No_Extracted_Shoreline carrying the roi_id, before
\* output_to_gdf is called; a constructed object has a non-empty list.
C8_NoExtractedShoreline ==
  /\ FailedWith("No_Extracted_Shoreline") =>
       /\ err.msg = args.roi_id.s
       /\ Len(extracted_shorelines.shorelines) = 0
       /\ gdf = EmptyGdf
  /\ (Len(calls) >= 5 /\ calls[5].ok /\ Len(calls[5].res.shorelines) = 0
        /\ pc # "check_empty") => FailedWith("No_Extracted_Shoreline")
  /\ \A i \in 1..Len(calls) :
       calls[i].fn = "output_to_gdf" => Len(calls[i].arg[1].shorelines) > 0
  /\ pc = "constructed" => Len(extracted_shorelines.shorelines) > 0

\* shorelines were detected, the filters removed them all, construction failed
C8_Witness ==
  /\ FailedWith("No_Extracted_Shoreline")
  /\ Len(calls) = 5
  /\ Len(calls[3].res.shorelines) > 0
  /\ err.msg = "21"

\* C9: a construction that failed with ValueError made no external call, did not run
\* create_shoreline_settings and allocated nothing, whichever argument is invalid.
C9_ValidationFirst ==
  FailedWith("ValueError") =>
    /\ calls = <<>>
    /\ shoreline_settings = 0
    /\ DOMAIN heap \subseteq {Addr.settings, Addr.sat_list, Addr.roi_settings}
    /\ gdf = EmptyGdf
    /\ DOMAIN extracted_shorelines = {}

\* the last of the four arguments, settings, was the invalid one
C9_Witness ==
  /\ FailedWith("ValueError")
  /\ err.msg = "settings must be dict."
  /\ RoiIdNonEmpty /\ ShorelineNonEmpty /\ RoiSettingsNonEmpty

\* what get_styled_layers returned for the object as it is
StyledLayersRight ==
  LET n == Len(gdf.rows)
      layers == last.layers
  IN  /\ last.raised = ""
      /\ Len(layers) = n
      /\ Len(get_layer_names(gdf, roi_id)) = n
      /\ \A i \in 1..n :
           /\ DOMAIN layers[i].data # {}
           /\ layers[i].data.geometry.coordinates = gdf.rows[i].geometry
           /\ layers[i].data.properties.date = gdf.rows[i].date
           /\ layers[i].data.properties.satname = gdf.rows[i].satname
           /\ layers[i].name = <<"ID", roi_id.s, "_", gdf.rows[i].date>>
           /\ layers[i].name = get_layer_names(gdf, roi_id)[i]
           /\ layers[i].style.color = [colour |-> i, of |-> n]

\* C10: get_styled_layers returns one layer per row of gdf, in row order, the i-th
\* holding the i-th feature, named "ID" + roi_id + "_" + the row's date and coloured
\* with the i-th of the n colours; the assertion of style_layer does not fail and
\* gdf is left unchanged.
C10_StyledLayers ==
  [][last'.op = "get_styled_layers" => (StyledLayersRight' /\ gdf' = gdf)]_vars

\* layers were returned for a gdf of two rows with different dates
C10_Witness ==
  /\ last.op = "get_styled_layers"
  /\ Len(last.layers) = 2
  /\ last.layers[1].name # last.layers[2].name

====
